---- MODULE Spec2Model ----
(***************************************************************************)
(* A model of package pngembed (src/embed.go): building PNG chunks,        *)
(* splicing a chunk after the first chunk of a PNG byte stream, and        *)
(* reading tEXt / iTXt key-value pairs back.                               *)
(*                                                                         *)
(* Bytes are the integers 0..255, byte slices and strings are sequences    *)
(* of bytes.  A uint32 is kept as two 16-bit halves [hi, lo] so that the   *)
(* whole range 0 .. 2^32-1 is represented exactly.                         *)
(***************************************************************************)
EXTENDS Integers, Sequences, FiniteSets, TLC

VARIABLES
    intSize,    \* the width of int in the build that runs: 32 or 64
    data,       \* the PNG byte stream the caller holds
    orig,       \* the stream the run started from
    embedded,   \* the chunks embedded so far, newest first
    op,         \* the last call made
    key,        \* the k argument of the last Embed call
    value,      \* the v argument of the last Embed call
    input,      \* the data argument of the last call
    pngChunk,   \* the chunk the last Embed call handed to embed
    out,        \* the bytes returned by the last Embed / buildChunk call
    err,        \* the error returned by the last call ("nil": none)
    ret,        \* the map returned by the last Extract call
    retNil,     \* TRUE when the last Extract call returned a nil map
    ct,         \* the ct argument of the last buildChunk call
    payload     \* the data argument of the last buildChunk call

vars == <<intSize, data, orig, embedded, op, key, value, input, pngChunk, out, err,
          ret, retNil, ct, payload>>

(***************************************************************************)
(* Bounds of the model.                                                    *)
(***************************************************************************)
\* the number of Embed calls chained on one PNG stream
MaxEmbeds == 2

\* the number of Embed calls chained on one stream of arbitrary bytes
MaxByteEmbeds == 1

(***************************************************************************)
(* Bytes, slices, integers.                                                *)
(***************************************************************************)
Byte == 0 .. 255

Min(a, b) == IF a < b THEN a ELSE b

\* s[lo:hi] of Go, 0-based, hi exclusive; the caller has checked the bounds
Slice(s, lo, hi) == SubSeq(s, lo + 1, hi)

RECURSIVE Concat(_)
Concat(ss) == IF ss = <<>> THEN <<>> ELSE Head(ss) \o Concat(Tail(ss))

\* the errors and outcomes of a call
Nil == "nil"
Panic == "panic"
EOF == "EOF"

\* the empty map
EmptyMap == [x \in {} |-> <<>>]

\* m[k] = v of a Go map
MapPut(m, k, v) == [x \in DOMAIN m \cup {k} |-> IF x = k THEN v ELSE m[x]]

(***************************************************************************)
(* Constants of the package.                                               *)
(***************************************************************************)
pngMagic == <<137, 80, 78, 71, 13, 10, 26, 10>>

NULL_SEPERATOR == 0

\* the chunk types, as their ASCII bytes
IHDR == <<73, 72, 68, 82>>
PLTE == <<80, 76, 84, 69>>
IDAT == <<73, 68, 65, 84>>
IEND == <<73, 69, 78, 68>>
bKGD == <<98, 75, 71, 68>>
cHRM == <<99, 72, 82, 77>>
dSIG == <<100, 83, 73, 71>>
eXIf == <<101, 88, 73, 102>>
gAMA == <<103, 65, 77, 65>>
hIST == <<104, 73, 83, 84>>
iCCP == <<105, 67, 67, 80>>
iTXt == <<105, 84, 88, 116>>
pHYs == <<112, 72, 89, 115>>
sBIT == <<115, 66, 73, 84>>
sPLT == <<115, 80, 76, 84>>
sRGB == <<115, 82, 71, 66>>
sTER == <<115, 84, 69, 82>>
tEXt == <<116, 69, 88, 116>>
tIME == <<116, 73, 77, 69>>
tRNS == <<116, 82, 78, 83>>
zTXt == <<122, 84, 88, 116>>

ValidChunkTypes ==
    << IHDR, PLTE, IDAT, IEND,
       bKGD, cHRM, dSIG, eXIf, gAMA, hIST, iCCP, iTXt, pHYs,
       sBIT, sPLT, sRGB, sTER, tEXt, tIME, tRNS, zTXt >>

(***************************************************************************)
(* encoding/binary and hash/crc32, as the package uses them.               *)
(***************************************************************************)
\* binary.BigEndian.PutUint32(b, uint32(n)), for 0 <= n < 2^31
PutUint32(n) ==
    << (n \div 16777216) % 256, (n \div 65536) % 256, (n \div 256) % 256, n % 256 >>

\* binary.BigEndian.Uint32(d), as the halves [hi, lo] of the value
Uint32(d) == [hi |-> d[1] * 256 + d[2], lo |-> d[3] * 256 + d[4]]

\* a faulty variant: the sum is not reduced modulo 2^32
AddUint32NoWrap(x, n) ==
    LET lo == x.lo + n
    IN  [hi |-> x.hi + lo \div 65536, lo |-> lo % 65536]

\* x + n on uint32, n < 2^16: the sum wraps modulo 2^32
AddUint32(x, n) ==
    LET lo == x.lo + n
    IN  [hi |-> (x.hi + lo \div 65536) % 65536, lo |-> lo % 65536]

\* a ^ b on 4-bit values, bit by bit
XorBits(a, b) ==
    ((a + b) % 2)
        + 2 * (((a \div 2) + (b \div 2)) % 2)
        + 4 * (((a \div 4) + (b \div 4)) % 2)
        + 8 * (((a \div 8) + (b \div 8)) % 2)

\* the table of a ^ b on 4-bit values, as a tuple of tuples: Xor4[a + 1][b + 1]
Xor4 == <<>> \o [a \in 1 .. 16 |-> <<>> \o [b \in 1 .. 16 |-> XorBits(a - 1, b - 1)]]

\* a ^ b on bytes
Xor8(a, b) ==
    16 * Xor4[(a \div 16) + 1][(b \div 16) + 1] + Xor4[(a % 16) + 1][(b % 16) + 1]

\* a 32-bit word is its four bytes, most significant first
XorWord(x, y) == << Xor8(x[1], y[1]), Xor8(x[2], y[2]), Xor8(x[3], y[3]), Xor8(x[4], y[4]) >>

\* ^x
NotWord(x) == << 255 - x[1], 255 - x[2], 255 - x[3], 255 - x[4] >>

\* x >> 1
ShiftRight1(x) ==
    << x[1] \div 2,
       (x[1] % 2) * 128 + x[2] \div 2,
       (x[2] % 2) * 128 + x[3] \div 2,
       (x[3] % 2) * 128 + x[4] \div 2 >>

\* x >> 8
ShiftRight8(x) == << 0, x[1], x[2], x[3] >>

\* crc32.IEEE, the reversed polynomial 0xedb88320
IEEEPoly == << 237, 184, 131, 32 >>

\* one bit of the table's construction: crc>>1, ^ poly when the low bit is set
TableStep(crc) ==
    IF crc[4] % 2 = 1 THEN XorWord(ShiftRight1(crc), IEEEPoly) ELSE ShiftRight1(crc)

\* the table entry of byte i: eight steps
TableEntry(i) ==
    TableStep(TableStep(TableStep(TableStep(
        TableStep(TableStep(TableStep(TableStep(<<0, 0, 0, i>>))))))))

\* crc32.IEEETable, as a tuple: the entry of byte i is IEEETable[i + 1]
IEEETable == <<>> \o [i \in 1 .. 256 |-> TableEntry(i - 1)]

\* one byte of the table-driven update: tab[byte(crc) ^ v] ^ (crc >> 8)
crcByte(crc, v) ==
    XorWord(IEEETable[Xor8(crc[4], v) + 1], ShiftRight8(crc))

\* the update over p[lo .. hi], in order
RECURSIVE crcUpdate(_, _, _, _)
crcUpdate(crc, p, lo, hi) ==
    IF lo > hi THEN crc
    ELSE IF lo = hi THEN crcByte(crc, p[lo])
    ELSE LET mid == (lo + hi) \div 2
         IN  \* the left half is computed first, then the right half from it
             CHOOSE r \in { crcUpdate(left, p, mid + 1, hi) :
                                left \in { crcUpdate(crc, p, lo, mid) } } : TRUE

\* crc32.ChecksumIEEE(p), already laid out as PutUint32 lays it out
ChecksumIEEE(p) == NotWord(crcUpdate(NotWord(<<0, 0, 0, 0>>), p, 1, Len(p)))

(***************************************************************************)
(* errIfNotSubStr, isValidChunkType, buildChunk.                           *)
(***************************************************************************)
RECURSIVE errIfNotSubStrFrom(_, _, _)
errIfNotSubStrFrom(s, sub, i) ==
    IF i > Len(sub) THEN Nil
    ELSE IF sub[i] # s[i] THEN "byte mismatch with sub"
    ELSE errIfNotSubStrFrom(s, sub, i + 1)

errIfNotSubStr(s, sub) ==
    IF Len(sub) > Len(s) THEN "substring larger than parent"
    ELSE errIfNotSubStrFrom(s, sub, 1)

isValidChunkType(t) == \E i \in 1 .. Len(ValidChunkTypes) : ValidChunkTypes[i] = t

\* a faulty variant: the CRC is taken over the data alone
buildChunkCrcOfData(t, d) ==
    IF ~isValidChunkType(t) THEN [out |-> <<>>, err |-> "invalid chunk type"]
    ELSE [out |-> PutUint32(Len(d)) \o t \o d \o ChecksumIEEE(d), err |-> Nil]

buildChunk(t, d) ==
    IF ~isValidChunkType(t) THEN [out |-> <<>>, err |-> "invalid chunk type"]
    ELSE LET szbs  == PutUint32(Len(d))
             bb    == t \o d
             crcbs == ChecksumIEEE(bb)
         IN  [out |-> szbs \o (bb \o crcbs), err |-> Nil]

(***************************************************************************)
(* bytes.Buffer, and embed.                                                *)
(***************************************************************************)
\* buf.Next(n) for 0 <= n: the next min(n, buf.Len()) bytes, and what is left
BufferNext(buf, n) ==
    LET m == Min(n, Len(buf))
    IN  [d |-> SubSeq(buf, 1, m), rest |-> SubSeq(buf, m + 1, Len(buf))]

\* the widths of int a build of the package can have
IntSizes == {32, 64}

\* int(x) of a uint32 x is negative where int has 32 bits and x >= 2^31
IntIsNegative(x, bits) == bits = 32 /\ x.hi >= 32768

\* min(int(x), m) for int(x) >= 0 and m < 2^16
ClampInt(x, m) == IF x.hi > 0 \/ x.lo > m THEN m ELSE x.lo

\* a faulty variant: the first chunk is taken to end after its data, before its CRC
embedBeforeCrc(stream, chunk, bits) ==
    LET magic == BufferNext(stream, Len(pngMagic))
        e     == errIfNotSubStr(pngMagic, magic.d)
    IN  IF e # Nil THEN [out |-> <<>>, err |-> e]
        ELSE LET len == BufferNext(magic.rest, 4)
             IN  IF Len(len.d) < 4 THEN [out |-> <<>>, err |-> Panic]
                 ELSE LET n   == AddUint32(Uint32(len.d), 4)
                          hdr == BufferNext(len.rest, ClampInt(n, Len(len.rest)))
                      IN  [out |-> magic.d \o len.d \o hdr.d \o chunk \o hdr.rest,
                           err |-> Nil]

\* a faulty variant: the new chunk is appended at the end of the stream
embedAtEnd(stream, chunk, bits) ==
    LET magic == BufferNext(stream, Len(pngMagic))
        e     == errIfNotSubStr(pngMagic, magic.d)
    IN  IF e # Nil THEN [out |-> <<>>, err |-> e]
        ELSE IF Len(magic.rest) < 4 THEN [out |-> <<>>, err |-> Panic]
        ELSE [out |-> stream \o chunk, err |-> Nil]

embed(stream, chunk, bits) ==
    LET magic == BufferNext(stream, Len(pngMagic))
        e     == errIfNotSubStr(pngMagic, magic.d)
    IN  IF e # Nil THEN [out |-> <<>>, err |-> e]
        ELSE LET len == BufferNext(magic.rest, 4)
             IN  \* binary.BigEndian.Uint32 indexes d[3]
                 IF Len(len.d) < 4 THEN [out |-> <<>>, err |-> Panic]
                 ELSE LET sz == Uint32(len.d)
                          n  == AddUint32(sz, 8)
                      IN  \* buf.Next slices buf[off : off+n]
                          IF IntIsNegative(n, bits)
                          THEN [out |-> <<>>, err |-> Panic]
                          ELSE LET hdr == BufferNext(len.rest, ClampInt(n, Len(len.rest)))
                               IN  [out |-> magic.d \o len.d \o hdr.d \o chunk \o hdr.rest,
                                    err |-> Nil]

(***************************************************************************)
(* to_bytes.  A value v is [kind, n, s]: an int n, a float64 of value n/4  *)
(* (n counts quarters, so %f prints it exactly), a string s, a bool        *)
(* (n = 1: true) that goes to json.Marshal, and a chan, which json.Marshal *)
(* rejects.                                                                *)
(***************************************************************************)
IntValue(n) == [kind |-> "int", n |-> n, s |-> <<>>]
FloatValue(q) == [kind |-> "float", n |-> q, s |-> <<>>]
StringValue(s) == [kind |-> "string", n |-> 0, s |-> s]
BoolValue(b) == [kind |-> "bool", n |-> IF b THEN 1 ELSE 0, s |-> <<>>]
ChanValue == [kind |-> "chan", n |-> 0, s |-> <<>>]

Abs(n) == IF n < 0 THEN 0 - n ELSE n

RECURSIVE Digits(_)
Digits(n) == IF n < 10 THEN <<48 + n>> ELSE Digits(n \div 10) \o <<48 + (n % 10)>>

RECURSIVE PadDigits(_, _)
PadDigits(n, w) == IF w = 0 THEN <<>> ELSE PadDigits(n \div 10, w - 1) \o <<48 + (n % 10)>>

Sign(n) == IF n < 0 THEN <<45>> ELSE <<>>

\* fmt.Sprintf("%d", n)
SprintfD(n) == Sign(n) \o Digits(Abs(n))

\* fmt.Sprintf("%f", q/4): six digits after the point
SprintfF(q) ==
    Sign(q) \o Digits(Abs(q) \div 4) \o <<46>> \o PadDigits((Abs(q) % 4) * 250000, 6)

\* json.Marshal of a bool
jsonMarshalBool(n) == IF n = 1 THEN <<116, 114, 117, 101>> ELSE <<102, 97, 108, 115, 101>>

\* a faulty variant: %d drops the sign
to_bytesUnsigned(v) ==
    CASE v.kind = "int"    -> [val |-> Digits(Abs(v.n)), err |-> Nil]
      [] v.kind = "float"  -> [val |-> SprintfF(v.n), err |-> Nil]
      [] v.kind = "string" -> [val |-> v.s, err |-> Nil]
      [] v.kind = "bool"   -> [val |-> jsonMarshalBool(v.n), err |-> Nil]
      [] OTHER             -> [val |-> <<>>, err |-> "json: unsupported type"]

to_bytes(v) ==
    CASE v.kind = "int"    -> [val |-> SprintfD(v.n), err |-> Nil]
      [] v.kind = "float"  -> [val |-> SprintfF(v.n), err |-> Nil]
      [] v.kind = "string" -> [val |-> v.s, err |-> Nil]
      [] v.kind = "bool"   -> [val |-> jsonMarshalBool(v.n), err |-> Nil]
      [] OTHER             -> [val |-> <<>>, err |-> "json: unsupported type"]

(***************************************************************************)
(* formatTEXTChunk, formatITXTChunk, EmbedTEXT, EmbedITXT.                 *)
(***************************************************************************)
formatTEXTChunk(text, keyword) == (keyword \o <<NULL_SEPERATOR>>) \o text

\* a faulty variant: the two compression bytes are left out
formatITXTChunkNoCompression(text, keyword, compression_flag, compression_method, language_tag, translated_keyword) ==
    keyword \o <<NULL_SEPERATOR>>
        \o language_tag \o <<NULL_SEPERATOR>>
        \o translated_keyword \o <<NULL_SEPERATOR>>
        \o text

formatITXTChunk(text, keyword, compression_flag, compression_method, language_tag, translated_keyword) ==
    keyword \o <<NULL_SEPERATOR>>
        \o <<compression_flag % 256>> \o <<compression_method % 256>>
        \o language_tag \o <<NULL_SEPERATOR>>
        \o translated_keyword \o <<NULL_SEPERATOR>>
        \o text

\* the chunk EmbedTEXT builds; buildChunk's error is dropped
TEXTChunkOf(k, val) == buildChunk(tEXt, formatTEXTChunk(val, k)).out

\* the chunk EmbedITXT builds; buildChunk's error is dropped
ITXTChunkOf(k, val) == buildChunk(iTXt, formatITXTChunk(val, k, 0, 0, <<>>, <<>>)).out

EmbedTEXT(stream, k, v, bits) ==
    LET b == to_bytes(v)
    IN  IF b.err # Nil THEN [out |-> <<>>, err |-> b.err, chunk |-> <<>>]
        ELSE LET c == TEXTChunkOf(k, b.val)
                 r == embed(stream, c, bits)
             IN  [out |-> r.out, err |-> r.err, chunk |-> c]

EmbedITXT(stream, k, v, bits) ==
    LET b == to_bytes(v)
    IN  IF b.err # Nil THEN [out |-> <<>>, err |-> b.err, chunk |-> <<>>]
        ELSE LET c == ITXTChunkOf(k, b.val)
                 r == embed(stream, c, bits)
             IN  [out |-> r.out, err |-> r.err, chunk |-> c]

(***************************************************************************)
(* The chunk reader the package consumes (github.com/sabhiram/pngr): it    *)
(* checks the magic, then yields the chunks of the included types in       *)
(* stream order, io.EOF at the end of the stream and another error when a  *)
(* chunk cannot be read.  The chunks of the streams of the model all carry *)
(* the CRC of their bytes, so whether the reader checks it does not show.  *)
(***************************************************************************)
NewReader(stream) ==
    IF Len(stream) >= Len(pngMagic) /\ SubSeq(stream, 1, Len(pngMagic)) = pngMagic
    THEN [rest |-> SubSeq(stream, Len(pngMagic) + 1, Len(stream)), err |-> Nil]
    ELSE [rest |-> <<>>, err |-> "not a png"]

NoChunk(e) == [type |-> <<>>, data |-> <<>>, crc |-> <<>>, rest |-> <<>>, err |-> e]

\* the chunk at the front of rest
ReadChunk(rest) ==
    IF rest = <<>> THEN NoChunk(EOF)
    ELSE IF Len(rest) < 8 THEN NoChunk("unexpected EOF")
    ELSE LET sz == Uint32(SubSeq(rest, 1, 4))
         IN  IF sz.hi > 0 \/ sz.lo + 12 > Len(rest) THEN NoChunk("unexpected EOF")
             ELSE LET t   == SubSeq(rest, 5, 8)
                      d   == SubSeq(rest, 9, 8 + sz.lo)
                      crc == SubSeq(rest, 9 + sz.lo, 12 + sz.lo)
                  IN  [type |-> t, data |-> d, crc |-> crc,
                       rest |-> SubSeq(rest, 13 + sz.lo, Len(rest)), err |-> Nil]

\* r.Next(): the next chunk of an included type
RECURSIVE ReaderNext(_, _)
ReaderNext(rest, included) ==
    LET c == ReadChunk(rest)
    IN  IF c.err # Nil \/ c.type \in included THEN c
        ELSE ReaderNext(c.rest, included)

(***************************************************************************)
(* ExtractTEXT.                                                            *)
(***************************************************************************)
RECURSIVE IndexFrom(_, _, _)
IndexFrom(s, b, i) ==
    IF i > Len(s) THEN 0 - 1
    ELSE IF s[i] = b THEN i - 1
    ELSE IndexFrom(s, b, i + 1)

\* strings.Index(s, string(b)): the 0-based place of the first b, or -1
stringsIndex(s, b) == IndexFrom(s, b, 1)

\* what a call that panicked leaves its caller: nothing
Panicked == [ret |-> EmptyMap, retNil |-> TRUE, err |-> Panic]

\* a faulty variant: an entry once written is kept
MapPutIfAbsent(m, k, v) ==
    [x \in DOMAIN m \cup {k} |-> IF x \in DOMAIN m THEN m[x] ELSE v]

\* ret[k] = v
retPut(m, k, v) == MapPut(m, k, v)

\* the loop of ExtractTEXT over r.Next()
RECURSIVE scanTEXT(_, _)
scanTEXT(rest, m) ==
    LET c == ReaderNext(rest, {tEXt})
    IN  IF c.err # Nil
        THEN [ret |-> m, retNil |-> FALSE, err |-> IF c.err = EOF THEN Nil ELSE c.err]
        ELSE LET sz == Len(c.data)
                 pt == stringsIndex(c.data, NULL_SEPERATOR)
             IN  IF pt < sz
                 THEN \* c.Data[:pt] needs 0 <= pt
                      IF pt < 0 THEN Panicked
                      ELSE scanTEXT(c.rest,
                                    retPut(m, Slice(c.data, 0, pt), Slice(c.data, pt + 1, sz)))
                 ELSE scanTEXT(c.rest, m)

ExtractTEXT(stream) ==
    LET r == NewReader(stream)
    IN  IF r.err # Nil THEN [ret |-> EmptyMap, retNil |-> TRUE, err |-> r.err]
        ELSE scanTEXT(r.rest, EmptyMap)

(***************************************************************************)
(* bufio.Reader over a chunk's data, readNullTerminated, ExtractITXT.      *)
(***************************************************************************)
\* br.ReadBytes(delim): the bytes up to and with the first delim
ReadBytes(buf, delim) ==
    LET i == stringsIndex(buf, delim)
    IN  IF i < 0 THEN [d |-> buf, rest |-> <<>>, err |-> EOF]
        ELSE [d |-> SubSeq(buf, 1, i + 1), rest |-> SubSeq(buf, i + 2, Len(buf)), err |-> Nil]

\* br.Discard(n)
Discard(buf, n) ==
    IF Len(buf) < n THEN [rest |-> <<>>, err |-> EOF]
    ELSE [rest |-> SubSeq(buf, n + 1, Len(buf)), err |-> Nil]

readNullTerminated(buf) ==
    LET r == ReadBytes(buf, NULL_SEPERATOR)
    IN  IF r.err # Nil THEN [s |-> <<>>, rest |-> r.rest, err |-> r.err]
        ELSE [s |-> Slice(r.d, 0, Len(r.d) - 1), rest |-> r.rest, err |-> Nil]

Failed(e) == [ret |-> EmptyMap, retNil |-> TRUE, err |-> e]

\* the body of ExtractITXT's loop: the fields of one iTXt payload
parseITXT(d) ==
    LET kw == readNullTerminated(d)
    IN  IF kw.err # Nil THEN [keyword |-> <<>>, text |-> <<>>, err |-> kw.err]
        ELSE LET f == Discard(kw.rest, 1)
             IN  IF f.err # Nil
                 THEN [keyword |-> <<>>, text |-> <<>>, err |-> "discard compression flag"]
                 ELSE LET m == Discard(f.rest, 1)
                      IN  IF m.err # Nil
                          THEN [keyword |-> <<>>, text |-> <<>>,
                                err |-> "discard compression method"]
                          ELSE LET lang == ReadBytes(m.rest, NULL_SEPERATOR)
                                   tr   == ReadBytes(lang.rest, NULL_SEPERATOR)
                               IN  IF lang.err # Nil
                                   THEN [keyword |-> <<>>, text |-> <<>>,
                                         err |-> "read language tag"]
                                   ELSE IF tr.err # Nil
                                   THEN [keyword |-> <<>>, text |-> <<>>,
                                         err |-> "read translated keyword"]
                                   \* io.ReadAll(br): all that is left
                                   ELSE [keyword |-> kw.s, text |-> tr.rest, err |-> Nil]

\* the loop of ExtractITXT over r.Next()
RECURSIVE scanITXT(_, _)
scanITXT(rest, m) ==
    LET c == ReaderNext(rest, {iTXt})
    IN  IF c.err # Nil
        THEN [ret |-> m, retNil |-> FALSE, err |-> IF c.err = EOF THEN Nil ELSE c.err]
        ELSE LET p == parseITXT(c.data)
             IN  IF p.err # Nil THEN Failed(p.err)
                 ELSE scanITXT(c.rest, retPut(m, p.keyword, p.text))

ExtractITXT(stream) ==
    LET r == NewReader(stream)
    IN  IF r.err # Nil THEN Failed(r.err)
        ELSE scanITXT(r.rest, EmptyMap)

(***************************************************************************)
(* The inputs of the model.                                                *)
(***************************************************************************)
\* a well-formed chunk of a stream the model starts from
RawChunk(t, d) == PutUint32(Len(d)) \o t \o d \o ChecksumIEEE(t \o d)

\* the header of a 1x1 greyscale image
IHDRChunk == RawChunk(IHDR, <<0, 0, 0, 1, 0, 0, 0, 1, 8, 0, 0, 0, 0>>)
IDATChunk == RawChunk(IDAT, <<120, 1>>)
IENDChunk == RawChunk(IEND, <<>>)

Key1 == <<107>>         \* "k"
Key2 == <<97, 98>>      \* "ab"
Keys == {Key1, Key2}

\* -7, 1.5, "\x00a", and a value json.Marshal rejects
Values == {IntValue(0 - 7), FloatValue(6), StringValue(<<0, 97>>), ChanValue}

Png(chunks) == pngMagic \o IHDRChunk \o Concat(chunks) \o IENDChunk

\* tEXt payloads: "k\x00old", "k\x00new", "z\x00y", "nonull", ""
TextOld == Key1 \o <<0>> \o <<111, 108, 100>>
TextNew == Key1 \o <<0>> \o <<110, 101, 119>>
TextZ == <<122, 0, 121>>
TextNoNull == <<110, 111, 110, 117, 108, 108>>

\* iTXt payloads: "k", language "en", translated keyword "cle", text "t\x00u";
\* "k" with empty fields and text "v"; "z" with a set compression flag
ItxtK1 == Key1 \o <<0, 0, 0>> \o <<101, 110, 0>> \o <<99, 108, 101, 0>> \o <<116, 0, 117>>
ItxtK2 == Key1 \o <<0, 0, 0, 0, 0>> \o <<118>>
ItxtZ == <<122, 0, 1, 0, 0, 0>>
\* iTXt payloads that end early: in the keyword, after the flag, in the
\* language tag, in the translated keyword
ItxtNoKeywordEnd == <<113>>
ItxtNoMethod == <<113, 0, 0>>
ItxtNoLanguageEnd == <<113, 0, 0, 0, 101, 110>>
ItxtNoTranslatedEnd == <<113, 0, 0, 0, 101, 110, 0, 99>>

\* the PNG streams the runs of Spec start from: a minimal image; an image
\* that holds tEXt and iTXt chunks, some with the keyword "k"; an image whose
\* text chunks lack their separators
PngStreams ==
    { Png(<<>>),
      Png(<<RawChunk(tEXt, TextOld), IDATChunk, RawChunk(tEXt, TextZ),
             RawChunk(iTXt, ItxtK1), RawChunk(tEXt, TextNew), RawChunk(iTXt, ItxtK2)>>),
      Png(<<RawChunk(tEXt, TextNoNull), RawChunk(iTXt, ItxtNoLanguageEnd)>>) }

\* the byte streams the runs of SpecBytes start from: any bytes at all
ByteStreams ==
    { <<>>,
      SubSeq(pngMagic, 1, 1),
      SubSeq(pngMagic, 1, 4),
      SubSeq(pngMagic, 1, 7),
      <<1, 2, 3>>,
      <<137, 80, 78, 71, 13, 10, 26, 11>> \o IHDRChunk \o IENDChunk,
      <<71, 73, 70, 56, 57, 97>> \o IHDRChunk \o IENDChunk,
      pngMagic,
      pngMagic \o <<0, 0>>,
      pngMagic \o <<0, 0, 0, 0>>,
      pngMagic \o <<0, 0, 0, 50>> \o IHDR \o <<1, 2, 3>>,
      pngMagic \o <<0, 1, 0, 0>> \o IHDRChunk \o IENDChunk,
      pngMagic \o <<127, 255, 255, 247>> \o IHDRChunk,
      pngMagic \o <<127, 255, 255, 248>> \o IHDRChunk,
      pngMagic \o <<255, 255, 255, 247>> \o IHDRChunk,
      pngMagic \o <<255, 255, 255, 248>> \o IHDRChunk \o IENDChunk,
      pngMagic \o <<255, 255, 255, 255>> \o IHDRChunk \o IENDChunk,
      Png(<<>>),
      Png(<<IDATChunk, RawChunk(tEXt, TextOld), RawChunk(iTXt, ItxtK2)>>),
      Png(<<RawChunk(tEXt, TextNoNull)>>),
      Png(<<RawChunk(tEXt, TextZ), RawChunk(tEXt, <<>>), RawChunk(tEXt, TextOld)>>),
      Png(<<RawChunk(iTXt, ItxtZ), RawChunk(iTXt, ItxtNoKeywordEnd)>>),
      Png(<<RawChunk(iTXt, ItxtZ), RawChunk(iTXt, ItxtNoMethod)>>),
      Png(<<RawChunk(iTXt, ItxtZ), RawChunk(iTXt, ItxtNoLanguageEnd)>>),
      Png(<<RawChunk(iTXt, ItxtZ), RawChunk(iTXt, ItxtNoTranslatedEnd)>>),
      \* a stream cut off in its last chunk
      pngMagic \o IHDRChunk \o RawChunk(iTXt, ItxtZ) \o RawChunk(tEXt, TextZ)
          \o <<0, 0, 0, 9, 73, 68>> }

\* the arguments of buildChunk: the whitelist, and "abcd", "tEXT", "IHD",
\* "INVALID_KEY_VALUE", ""
ChunkTypeArgs ==
    { ValidChunkTypes[i] : i \in 1 .. Len(ValidChunkTypes) }
        \cup { <<97, 98, 99, 100>>, <<116, 69, 88, 84>>, <<73, 72, 68>>,
               <<73, 78, 86, 65, 76, 73, 68, 95, 75, 69, 89, 95, 86, 65, 76, 85, 69>>,
               <<>> }

PayloadArgs ==
    { <<>>, <<0>>, TextOld, ItxtK1, [i \in 1 .. 300 |-> (7 * i) % 256] }

(***************************************************************************)
(* The calls.                                                              *)
(***************************************************************************)
NoValue == [kind |-> "none", n |-> 0, s |-> <<>>]

InitWith(streams) ==
    /\ intSize \in IntSizes
    /\ data \in streams
    /\ orig = data
    /\ embedded = <<>>
    /\ op = "init"
    /\ key = <<>>
    /\ value = NoValue
    /\ input = <<>>
    /\ pngChunk = <<>>
    /\ out = <<>>
    /\ err = Nil
    /\ ret = EmptyMap
    /\ retNil = TRUE
    /\ ct = <<>>
    /\ payload = <<>>

Init == InitWith(PngStreams)

InitBytes == InitWith(ByteStreams)

\* the arguments of the buildChunk call of a run of SpecChunk are drawn here
InitChunk ==
    /\ ct \in ChunkTypeArgs
    /\ payload \in PayloadArgs
    /\ intSize = 64
    /\ data = <<>>
    /\ orig = <<>>
    /\ embedded = <<>>
    /\ op = "init"
    /\ key = <<>>
    /\ value = NoValue
    /\ input = <<>>
    /\ pngChunk = <<>>
    /\ out = <<>>
    /\ err = Nil
    /\ ret = EmptyMap
    /\ retNil = TRUE

\* r is what the Embed call returned; on success the caller goes on with the
\* stream it returned
Embedded(name, k, v, r) ==
    /\ op' = name
    /\ key' = k
    /\ value' = v
    /\ input' = data
    /\ pngChunk' = r.chunk
    /\ out' = r.out
    /\ err' = r.err
    /\ data' = IF r.err = Nil THEN r.out ELSE data
    /\ embedded' = IF r.err = Nil
                   THEN <<[op |-> name, key |-> k, v |-> v, png |-> data,
                           chunk |-> r.chunk]>> \o embedded
                   ELSE embedded
    /\ ret' = EmptyMap
    /\ retNil' = TRUE
    /\ UNCHANGED <<intSize, orig, ct, payload>>

EmbedTEXTCall(max) ==
    /\ Len(embedded) < max
    /\ \E k \in Keys, v \in Values :
          \E r \in {EmbedTEXT(data, k, v, intSize)} : Embedded("EmbedTEXT", k, v, r)

EmbedITXTCall(max) ==
    /\ Len(embedded) < max
    /\ \E k \in Keys, v \in Values :
          \E r \in {EmbedITXT(data, k, v, intSize)} : Embedded("EmbedITXT", k, v, r)

CallEmbedTEXT == EmbedTEXTCall(MaxEmbeds)

CallEmbedITXT == EmbedITXTCall(MaxEmbeds)

BytesEmbedTEXT == EmbedTEXTCall(MaxByteEmbeds)

BytesEmbedITXT == EmbedITXTCall(MaxByteEmbeds)

Extracted(name, r) ==
    /\ op' = name
    /\ input' = data
    /\ ret' = r.ret
    /\ retNil' = r.retNil
    /\ err' = r.err
    /\ key' = <<>>
    /\ value' = NoValue
    /\ pngChunk' = <<>>
    /\ out' = <<>>
    /\ UNCHANGED <<intSize, data, orig, embedded, ct, payload>>

CallExtractTEXT ==
    \E r \in {ExtractTEXT(data)} : Extracted("ExtractTEXT", r)

CallExtractITXT ==
    \E r \in {ExtractITXT(data)} : Extracted("ExtractITXT", r)

CallBuildChunk ==
    /\ op = "init"
    /\ \E r \in {buildChunk(ct, payload)} :
          /\ op' = "buildChunk"
          /\ out' = r.out
          /\ err' = r.err
          /\ UNCHANGED <<intSize, data, orig, embedded, key, value, input, pngChunk,
                         ret, retNil, ct, payload>>

Next == CallEmbedTEXT \/ CallEmbedITXT \/ CallExtractTEXT \/ CallExtractITXT

NextBytes == BytesEmbedTEXT \/ BytesEmbedITXT \/ CallExtractTEXT \/ CallExtractITXT

NextChunk == CallBuildChunk

\* Embed and Extract calls on PNG streams
Spec == Init /\ [][Next]_vars

\* Embed and Extract calls on arbitrary byte streams
SpecBytes == InitBytes /\ [][NextBytes]_vars

\* buildChunk on its own
SpecChunk == InitChunk /\ [][NextChunk]_vars

(***************************************************************************)
(* The PNG layout, stated from the format and apart from the code above:   *)
(* what the properties below measure the code against.                     *)
(***************************************************************************)
HasMagic(s) == Len(s) >= 8 /\ SubSeq(s, 1, 8) = <<137, 80, 78, 71, 13, 10, 26, 10>>

\* the complete chunks of s from place at on, up to the first that is cut off
RECURSIVE ChunksFrom(_, _)
ChunksFrom(s, at) ==
    IF at + 11 > Len(s) \/ s[at] # 0 \/ s[at + 1] # 0 THEN <<>>
    ELSE LET n == s[at + 2] * 256 + s[at + 3]
         IN  IF at + 11 + n > Len(s) THEN <<>>
             ELSE <<[at |-> at, type |-> SubSeq(s, at + 4, at + 7),
                     data |-> SubSeq(s, at + 8, at + 7 + n)]>>
                      \o ChunksFrom(s, at + 12 + n)

Chunks(s) == IF HasMagic(s) THEN ChunksFrom(s, 9) ELSE <<>>

\* the place of the last byte of chunk c
ChunkEnd(c) == c.at + 11 + Len(c.data)

\* every byte after the magic belongs to a complete chunk
Framed(s) ==
    LET cs == Chunks(s)
    IN  cs # <<>> /\ ChunkEnd(cs[Len(cs)]) = Len(s)

\* the place of the first null byte of d at or after place i, 0 when none
NullAtOrAfter(d, i) ==
    LET S == {j \in i .. Len(d) : d[j] = 0}
    IN  IF S = {} THEN 0 ELSE CHOOSE j \in S : \A x \in S : j <= x

\* a tEXt payload is keyword, null, text
TextHasPair(d) == NullAtOrAfter(d, 1) > 0

\* an iTXt payload is keyword, null, two bytes, language tag, null,
\* translated keyword, null, text: the place of the third of these nulls
ItxtLastNull(d) ==
    LET p1 == NullAtOrAfter(d, 1)
        p2 == IF p1 = 0 THEN 0 ELSE NullAtOrAfter(d, p1 + 3)
    IN  IF p2 = 0 THEN 0 ELSE NullAtOrAfter(d, p2 + 1)

ItxtFramed(d) == ItxtLastNull(d) > 0

\* chunk c is of type t and holds a pair
HasPair(c, t) ==
    /\ c.type = t
    /\ IF t = tEXt THEN TextHasPair(c.data) ELSE ItxtFramed(c.data)

KeywordOf(c) == SubSeq(c.data, 1, NullAtOrAfter(c.data, 1) - 1)

TextOf(c, t) ==
    IF t = tEXt THEN SubSeq(c.data, NullAtOrAfter(c.data, 1) + 1, Len(c.data))
    ELSE SubSeq(c.data, ItxtLastNull(c.data) + 1, Len(c.data))

\* the pairs of the chunks of type t of s, the last chunk of a keyword winning
LastWins(s, t) ==
    LET cs == Chunks(s)
        I  == {i \in 1 .. Len(cs) : HasPair(cs[i], t)}
        K  == {KeywordOf(cs[i]) : i \in I}
    IN  [k \in K |->
            LET last == CHOOSE i \in I :
                            /\ KeywordOf(cs[i]) = k
                            /\ \A j \in I : KeywordOf(cs[j]) = k => j <= i
            IN  TextOf(cs[last], t)]

\* s has a chunk of type t that holds no pair
HasUnframed(s, t) ==
    \E i \in 1 .. Len(Chunks(s)) : Chunks(s)[i].type = t /\ ~HasPair(Chunks(s)[i], t)

\* a well-formed PNG stream: whole chunks, and text chunks laid out as the
\* format lays them out
WellFormedPng(s) == Framed(s) /\ ~HasUnframed(s, tEXt) /\ ~HasUnframed(s, iTXt)

\* the bytes of the values of the model: "-7", "1.500000", the string itself
ExpectedBytes(v) ==
    CASE v = IntValue(0 - 7) -> <<45, 55>>
      [] v = FloatValue(6)   -> <<49, 46, 53, 48, 48, 48, 48, 48>>
      [] v.kind = "string"   -> v.s
      [] OTHER               -> <<>>

EmbedOps == {"EmbedTEXT", "EmbedITXT"}

\* the last call was an Embed call whose value was turned into bytes, so that
\* embed was called
EmbedRan == op \in EmbedOps /\ pngChunk # <<>>

(***************************************************************************)
(* CRC-32/IEEE from its polynomial, bit by bit.  The register is the set   *)
(* of its set bits, bit 0 the lowest.                                      *)
(***************************************************************************)
\* x^32 + x^26 + x^23 + x^22 + x^16 + x^12 + x^11 + x^10 + x^8 + x^7 + x^5
\* + x^4 + x^2 + x + 1, without the leading x^32
PolyExponents == {0, 1, 2, 4, 5, 7, 8, 10, 11, 12, 16, 22, 23, 26}

\* the reflected polynomial: the term x^k is bit 31 - k
PolyBits == {31 - k : k \in PolyExponents}

SymDiff(A, B) == (A \ B) \cup (B \ A)

BitsOfByte(v) == {i \in 0 .. 7 : (v \div (2 ^ i)) % 2 = 1}

RefBitStep(reg) ==
    LET shifted == {b - 1 : b \in reg \ {0}}
    IN  IF 0 \in reg THEN SymDiff(shifted, PolyBits) ELSE shifted

RefByteStep(reg, v) ==
    RefBitStep(RefBitStep(RefBitStep(RefBitStep(
        RefBitStep(RefBitStep(RefBitStep(RefBitStep(SymDiff(reg, BitsOfByte(v))))))))))

RECURSIVE RefUpdate(_, _, _, _)
RefUpdate(reg, p, lo, hi) ==
    IF lo > hi THEN reg
    ELSE IF lo = hi THEN RefByteStep(reg, p[lo])
    ELSE LET mid == (lo + hi) \div 2
         IN  CHOOSE r \in { RefUpdate(left, p, mid + 1, hi) :
                                left \in { RefUpdate(reg, p, lo, mid) } } : TRUE

\* the byte made of bits base .. base + 7 of the complement of reg
RefByte(reg, base) ==
    (IF base \in reg THEN 0 ELSE 1)
        + (IF base + 1 \in reg THEN 0 ELSE 2)
        + (IF base + 2 \in reg THEN 0 ELSE 4)
        + (IF base + 3 \in reg THEN 0 ELSE 8)
        + (IF base + 4 \in reg THEN 0 ELSE 16)
        + (IF base + 5 \in reg THEN 0 ELSE 32)
        + (IF base + 6 \in reg THEN 0 ELSE 64)
        + (IF base + 7 \in reg THEN 0 ELSE 128)

\* the CRC of p, most significant byte first
RefCrc(p) ==
    LET reg == RefUpdate(0 .. 31, p, 1, Len(p))
    IN  <<RefByte(reg, 24), RefByte(reg, 16), RefByte(reg, 8), RefByte(reg, 0)>>

\* the chunk types of the PNG registry the package accepts
Whitelist ==
    {IHDR, PLTE, IDAT, IEND, bKGD, cHRM, dSIG, eXIf, gAMA, hIST, iCCP, iTXt, pHYs,
     sBIT, sPLT, sRGB, sTER, tEXt, tIME, tRNS, zTXt}

\* C8: for a whitelisted type ct and a payload p, buildChunk returns len(p) in
\* 4 bytes big-endian, the 4 bytes of ct, p unchanged, and CRC-32/IEEE of
\* ct ++ p in 4 bytes big-endian, len(p) + 12 bytes in all, so that the CRC
\* taken again over bytes [4, 8 + len(p)) of the result is its last 4 bytes;
\* the IEND chunk is the one every PNG file ends with; for a type outside the
\* whitelist buildChunk returns an error and no bytes.
C8_ChunkLayout ==
    op = "buildChunk" =>
        LET n == Len(payload)
        IN  IF ct \in Whitelist
            THEN /\ err = Nil
                 /\ Len(out) = n + 12
                 /\ SubSeq(out, 1, 4) = <<0, 0, n \div 256, n % 256>>
                 /\ SubSeq(out, 5, 8) = ct
                 /\ SubSeq(out, 9, 8 + n) = payload
                 /\ SubSeq(out, 9 + n, 12 + n) = RefCrc(ct \o payload)
                 /\ RefCrc(SubSeq(out, 5, 8 + n)) = SubSeq(out, 9 + n, 12 + n)
                 /\ (ct = IEND /\ n = 0 => out = <<0, 0, 0, 0, 73, 69, 78, 68, 174, 66, 96, 130>>)
            ELSE err # Nil /\ out = <<>>

\* a chunk was built of a whitelisted type and a payload longer than a byte
\* can count
C8_Witness ==
    /\ op = "buildChunk"
    /\ ct = tEXt
    /\ Len(payload) > 256
    /\ err = Nil
    /\ Len(out) = Len(payload) + 12

(***************************************************************************)
(* embed.                                                                  *)
(***************************************************************************)
\* the (complete) first chunk of the input of the last call
FirstChunkEnd == ChunkEnd(Chunks(input)[1])

\* C2: for a stream with valid magic and a complete first chunk, whatever
\* follows it, embed returns the magic and the first chunk, then the new
\* chunk, then the rest of the stream: the new chunk is the second chunk,
\* every byte before and after it is as in the input and in the same order,
\* and exactly one chunk is added.
C2_SplicePlacement ==
    (EmbedRan /\ Chunks(input) # <<>>) =>
        /\ err = Nil
        /\ out = SubSeq(input, 1, FirstChunkEnd) \o pngChunk
                     \o SubSeq(input, FirstChunkEnd + 1, Len(input))
        /\ Len(out) = Len(input) + Len(pngChunk)
        /\ Len(Chunks(out)) = Len(Chunks(input)) + 1
        /\ Chunks(out)[1] = Chunks(input)[1]
        /\ Chunks(out)[2].at = FirstChunkEnd + 1
        /\ ChunkEnd(Chunks(out)[2]) = FirstChunkEnd + Len(pngChunk)
        /\ \A i \in 2 .. Len(Chunks(input)) :
              /\ Chunks(out)[i + 1].type = Chunks(input)[i].type
              /\ Chunks(out)[i + 1].data = Chunks(input)[i].data

\* a chunk was spliced into a stream of four chunks
C2_Witness ==
    /\ EmbedRan
    /\ Len(Chunks(input)) = 4
    /\ err = Nil
    /\ Len(Chunks(out)) = 5
    /\ Chunks(out)[2].type = iTXt

\* C3: for an input whose first 8 bytes are not the PNG magic, inputs
\* shorter than 8 bytes among them, embed returns the not-a-PNG error as a
\* value and no output bytes, and never goes on to read a chunk length.
C3_MagicGuard ==
    (EmbedRan /\ ~HasMagic(input)) =>
        /\ err \in {"substring larger than parent", "byte mismatch with sub"}
        /\ out = <<>>

\* (L + 8) mod 2^32 for the length field L = b[1..4]: whether the sum wraps,
\* and whether it is 2^31 or more
SumWraps(b) == b[1] = 255 /\ b[2] = 255 /\ b[3] = 255 /\ b[4] >= 248

SumTopBit(b) ==
    /\ ~SumWraps(b)
    /\ \/ b[1] >= 128
       \/ b[1] = 127 /\ b[2] = 255 /\ b[3] = 255 /\ b[4] >= 248

\* min((L + 8) mod 2^32, left) for left < 2^16
CopyCount(b, left) ==
    IF SumWraps(b) THEN b[4] - 248
    ELSE IF b[1] > 0 \/ b[2] > 0 THEN left
    ELSE IF b[3] * 256 + b[4] + 8 > left THEN left
    ELSE b[3] * 256 + b[4] + 8

\* the 4 bytes of the length field of the input of the last call
LengthField == SubSeq(input, 9, 12)

\* C9, as amended: for a stream with valid magic and the 4 bytes of a length
\* field L after it, embed copies min((L + 8) mod 2^32, the bytes left) bytes
\* after the length field and puts the new chunk there; where int has 32 bits
\* and (L + 8) mod 2^32 is 2^31 or more it panics instead.
C9_SpliceOffset ==
    (EmbedRan /\ HasMagic(input) /\ Len(input) >= 12) =>
        IF intSize = 32 /\ SumTopBit(LengthField)
        THEN err = Panic
        ELSE LET m == IF CopyCount(LengthField, Len(input) - 12) > Len(input) - 12
                      THEN Len(input) - 12
                      ELSE CopyCount(LengthField, Len(input) - 12)
             IN  /\ err = Nil
                 /\ out = SubSeq(input, 1, 12 + m) \o pngChunk
                              \o SubSeq(input, 13 + m, Len(input))

\* the sum L + 8 wrapped to 7 and the new chunk went in 7 bytes after the
\* length field
C9_Witness ==
    /\ EmbedRan
    /\ HasMagic(input)
    /\ Len(input) >= 12
    /\ LengthField = <<255, 255, 255, 255>>
    /\ err = Nil
    /\ SubSeq(out, 20, 19 + Len(pngChunk)) = pngChunk

\* C9, as stated: embed copies exactly L + 8 bytes after the length field
\* for every L, so the new chunk starts at byte offset 8 + 4 + L + 8 of the
\* output.
C9_ExactlyLPlus8 ==
    (EmbedRan /\ HasMagic(input) /\ Len(input) >= 12) =>
        LET b == LengthField
            L == b[3] * 256 + b[4]
        IN  /\ err = Nil
            /\ b[1] = 0 /\ b[2] = 0
            /\ Len(out) >= 20 + L + Len(pngChunk)
            /\ SubSeq(out, 13, 20 + L) = SubSeq(input, 13, 20 + L)
            /\ SubSeq(out, 21 + L, 20 + L + Len(pngChunk)) = pngChunk

(***************************************************************************)
(* Extraction.                                                             *)
(***************************************************************************)
\* C4: when ExtractTEXT meets a tEXt chunk whose payload holds no null byte,
\* an empty payload among them, it adds no pair for it, raises no error, does
\* not abort and goes on, so the mapping holds the pairs of the chunks that
\* do hold a separator.
C4_PermissiveSkip ==
    (op = "ExtractTEXT" /\ Framed(input) /\ HasUnframed(input, tEXt)) =>
        /\ err = Nil
        /\ ~retNil
        /\ ret = LastWins(input, tEXt)

\* C5: when an iTXt chunk of the stream ends before one of its fields is
\* complete, ExtractITXT returns an error and no mapping; and whenever it
\* returns an error it returns no pair of a partial mapping.
C5_StrictITXT ==
    op = "ExtractITXT" =>
        /\ HasUnframed(input, iTXt) => err # Nil /\ retNil
        /\ err # Nil => retNil \/ DOMAIN ret = {}

\* C7: the mapping ExtractTEXT or ExtractITXT returns has one entry for each
\* keyword of the chunks of the scanned type, its value the text of the last
\* of the chunks with that keyword; chunks of other types add no entry.
C7_LastWriterWins ==
    (op \in {"ExtractTEXT", "ExtractITXT"} /\ err = Nil) =>
        /\ ~retNil
        /\ ret = LastWins(input, IF op = "ExtractTEXT" THEN tEXt ELSE iTXt)

\* a stream with two tEXt chunks of one keyword and different texts was read
C7_Witness ==
    /\ op = "ExtractTEXT"
    /\ err = Nil
    /\ \E i, j \in 1 .. Len(Chunks(input)) :
          /\ i < j
          /\ HasPair(Chunks(input)[i], tEXt)
          /\ HasPair(Chunks(input)[j], tEXt)
          /\ KeywordOf(Chunks(input)[i]) = KeywordOf(Chunks(input)[j])
          /\ TextOf(Chunks(input)[i], tEXt) # TextOf(Chunks(input)[j], tEXt)
          /\ KeywordOf(Chunks(input)[j]) \in DOMAIN ret
          /\ ret[KeywordOf(Chunks(input)[j])] = TextOf(Chunks(input)[j], tEXt)
          /\ \A x \in j + 1 .. Len(Chunks(input)) :
                HasPair(Chunks(input)[x], tEXt)
                    => KeywordOf(Chunks(input)[x]) # KeywordOf(Chunks(input)[j])

(***************************************************************************)
(* Round trips.                                                            *)
(***************************************************************************)
\* the last Embed call that returned a stream was name, and Extract of the
\* same kind was then called on the stream it returned
RoundTrip(name, extract) ==
    /\ op = extract
    /\ embedded # <<>>
    /\ Head(embedded).op = name

\* Extract returned a mapping that holds v's bytes under k
MapsTo(k, v) ==
    /\ err = Nil
    /\ ~retNil
    /\ k \in DOMAIN ret
    /\ ret[k] = ExpectedBytes(v)

\* every byte of s after the magic is in a whole chunk, and every tEXt chunk
\* holds its separator
TextWellFormed(s) == Framed(s) /\ ~HasUnframed(s, tEXt)

\* C1, as amended: for a PNG stream png of whole chunks whose tEXt chunks all
\* hold a separator and none of which has the keyword k, ExtractTEXT of
\* EmbedTEXT(png, k, v) succeeds and maps k to the bytes of v.
C1_RoundTripTEXT ==
    (/\ RoundTrip("EmbedTEXT", "ExtractTEXT")
     /\ TextWellFormed(Head(embedded).png)
     /\ Head(embedded).key \notin DOMAIN LastWins(Head(embedded).png, tEXt)) =>
        MapsTo(Head(embedded).key, Head(embedded).v)

\* -7 was embedded under a fresh keyword into a stream that holds other tEXt
\* chunks, and read back
C1_Witness ==
    /\ RoundTrip("EmbedTEXT", "ExtractTEXT")
    /\ TextWellFormed(Head(embedded).png)
    /\ DOMAIN LastWins(Head(embedded).png, tEXt) # {}
    /\ Head(embedded).key \notin DOMAIN LastWins(Head(embedded).png, tEXt)
    /\ Head(embedded).v = IntValue(0 - 7)
    /\ ret[Head(embedded).key] = <<45, 55>>

\* C1, as stated, on the streams of whole chunks whose tEXt chunks all hold a
\* separator: ExtractTEXT of EmbedTEXT(png, k, v) succeeds and maps k to the
\* bytes of v, also when png holds a tEXt chunk with the keyword k.
C1_RoundTripSameKeyword ==
    (/\ RoundTrip("EmbedTEXT", "ExtractTEXT")
     /\ TextWellFormed(Head(embedded).png)) =>
        MapsTo(Head(embedded).key, Head(embedded).v)

\* C6: for a well-formed PNG stream png that holds no iTXt chunk with the
\* keyword k, ExtractITXT of EmbedITXT(png, k, v) maps k to the bytes of v,
\* bytes equal to 0 among them: the payload embedded is k, null, two
\* compression bytes 0, two empty null-terminated fields, and the text, and
\* the parser takes all that follows them as the text.
C6_RoundTripITXT ==
    (/\ RoundTrip("EmbedITXT", "ExtractITXT")
     /\ WellFormedPng(Head(embedded).png)
     /\ Head(embedded).key \notin DOMAIN LastWins(Head(embedded).png, iTXt)) =>
        /\ MapsTo(Head(embedded).key, Head(embedded).v)
        /\ Chunks(input)[2].type = iTXt
        /\ Chunks(input)[2].data =
               Head(embedded).key \o <<0, 0, 0, 0, 0>> \o ExpectedBytes(Head(embedded).v)

\* a text that starts with a byte 0 was embedded under a fresh keyword and
\* read back
C6_Witness ==
    /\ RoundTrip("EmbedITXT", "ExtractITXT")
    /\ WellFormedPng(Head(embedded).png)
    /\ Head(embedded).key \notin DOMAIN LastWins(Head(embedded).png, iTXt)
    /\ Head(embedded).v = StringValue(<<0, 97>>)
    /\ ret[Head(embedded).key] = <<0, 97>>

(***************************************************************************)
(* Repeated embeds.                                                        *)
(***************************************************************************)
\* every Embed call so far that returned a stream was EmbedTEXT
AllTEXT == \A i \in 1 .. Len(embedded) : embedded[i].op = "EmbedTEXT"

\* the place in embedded of the earliest embed of keyword k
Earliest(k) ==
    CHOOSE i \in 1 .. Len(embedded) :
        /\ embedded[i].key = k
        /\ \A j \in 1 .. Len(embedded) : embedded[j].key = k => j <= i

\* C10: after n EmbedTEXT calls, each on the output of the one before, from
\* a well-formed PNG stream, the n embedded tEXt chunks sit right after the
\* first chunk, newest first, ahead of all original chunks; so ExtractTEXT
\* returns, for a keyword embedded more than once, the value of the earliest
\* embed, and for a keyword of a tEXt chunk of the original stream its
\* original value.
C10_EmbedOrder ==
    (AllTEXT /\ WellFormedPng(orig)) =>
        LET n  == Len(embedded)
            cs == Chunks(data)
            os == Chunks(orig)
            e  == ChunkEnd(os[1])
        IN  /\ data = SubSeq(orig, 1, e)
                          \o Concat([i \in 1 .. n |-> embedded[i].chunk])
                          \o SubSeq(orig, e + 1, Len(orig))
            /\ Len(cs) = Len(os) + n
            /\ \A i \in 1 .. n :
                  /\ cs[1 + i].type = tEXt
                  /\ cs[1 + i].data =
                         embedded[i].key \o <<0>> \o ExpectedBytes(embedded[i].v)
            /\ \A j \in 1 .. Len(os) :
                  /\ cs[IF j = 1 THEN 1 ELSE n + j].type = os[j].type
                  /\ cs[IF j = 1 THEN 1 ELSE n + j].data = os[j].data
            /\ op = "ExtractTEXT" =>
                  /\ err = Nil
                  /\ ~retNil
                  /\ \A i \in 1 .. n :
                        /\ embedded[i].key \in DOMAIN ret
                        /\ ret[embedded[i].key] =
                               IF embedded[i].key \in DOMAIN LastWins(orig, tEXt)
                               THEN LastWins(orig, tEXt)[embedded[i].key]
                               ELSE ExpectedBytes(embedded[Earliest(embedded[i].key)].v)

\* a keyword was embedded twice with different values and read back: the
\* value of the first embed
C10_Witness ==
    /\ AllTEXT
    /\ WellFormedPng(orig)
    /\ op = "ExtractTEXT"
    /\ Len(embedded) = 2
    /\ embedded[1].key = embedded[2].key
    /\ embedded[1].v # embedded[2].v
    /\ embedded[1].key \notin DOMAIN LastWins(orig, tEXt)
    /\ ret[embedded[1].key] = ExpectedBytes(embedded[2].v)

====
